---------------------------- MODULE Spec2Model ----------------------------
(***************************************************************************)
(* A model of the tester-agent repository: the statement parser            *)
(* (core/extractor.py), slugify and make_zipfile (core/utils.py), the      *)
(* pytest file builder (core/test_builder.py) and the Generate handler of  *)
(* the Streamlit front-end (app.py).                                       *)
(*                                                                         *)
(* Text is modelled as a sequence of one-character strings, so that        *)
(* splitting, trimming, header matching, joining and slugging are computed *)
(* character by character as the Python code computes them.                *)
(***************************************************************************)
EXTENDS Integers, Sequences, FiniteSets, TLC

VARIABLES
    \* parse_problem_text (core/extractor.py)
    text,           \* the argument: the statement text
    sections,       \* the local dict section name -> list of lines, at return
    result,         \* the returned mapping section name -> string
    ppc,            \* "start" | "done"
    \* slugify (core/utils.py)
    value,          \* the argument
    allow_unicode,  \* the flag
    slug,           \* the returned string
    spc,            \* "start" | "done"
    \* build_pytest_file (core/test_builder.py) and the run of its output
    cases,          \* the argument test_cases
    written,        \* the file written at output_path
    loaded,         \* what importing the written file gives the test runner
    calls,          \* the call made for each row of the table
    bpc,            \* "start" | "written" | "loaded" | "ran"
    \* the Generate handler (app.py), one run per session
    pc,             \* session -> position in the handler
    inp,            \* session -> the widgets' values when Generate is pressed
    solutions,      \* session -> list returned by generate_solutions
    test_cases,     \* session -> list returned by generate_test_cases
    ui,             \* session -> sequence of what was rendered
    validated,      \* session -> list of cases handed to validate_solutions
    solution_paths, \* session -> list of paths written
    test_files,     \* session -> list of paths returned by the test builder
    zipped,         \* session -> entries written to the archive so far
    offered,        \* session -> bytes handed to st.download_button, or None
    llm,            \* session -> what the language model does in this run
    disk            \* the shared temp directory: path -> file content

parseVars == <<text, sections, result, ppc>>
slugVars == <<value, allow_unicode, slug, spc>>
buildVars == <<cases, written, loaded, calls, bpc>>
appVars == <<pc, inp, solutions, test_cases, ui, validated, solution_paths,
             test_files, zipped, offered, llm, disk>>
vars == <<parseVars, slugVars, buildVars, appVars>>

(***************************************************************************)
(* Bounds of the model.                                                    *)
(***************************************************************************)
MaxLines == 3         \* lines of a statement text
MaxSlugLen == 3       \* characters of a slugify argument
MaxCases == 2         \* test cases handed to build_pytest_file
MaxRaw == 4           \* cases the language model may return

(***************************************************************************)
(* Characters and strings.                                                 *)
(***************************************************************************)
Chars(s) == [i \in 1..Len(s) |-> SubSeq(s, i, i)]

UpperLetters == Chars("ABCDEFGHIJKLMNOPQRSTUVWXYZ")
LowerLetters == Chars("abcdefghijklmnopqrstuvwxyz")
Digits == Chars("0123456789")

Range(f) == {f[i] : i \in DOMAIN f}

\* the characters outside ASCII that the model's inputs use (e and E with an
\* acute accent), each named by its code point
NonAsciiLower == {"U+00E9"}
NonAsciiUpper == {"U+00C9"}
NonAscii == NonAsciiLower \cup NonAsciiUpper

IsAscii(c) == c \notin NonAscii

\* str.isspace(), and \s of a str pattern
IsSpace(c) == c \in {" ", "\t", "\n", "\r", "\f"}

\* \w of a str pattern: Unicode letters, digits and the underscore
IsWord(c) == \/ c \in Range(UpperLetters) \cup Range(LowerLetters)
             \/ c \in Range(Digits)
             \/ c = "_"
             \/ c \in NonAscii

\* str.lower() on one character
Lower(c) ==
    IF c \in Range(UpperLetters)
    THEN LowerLetters[CHOOSE i \in DOMAIN UpperLetters : UpperLetters[i] = c]
    ELSE IF c = "U+00C9" THEN "U+00E9" ELSE c

LowerStr(s) == [i \in DOMAIN s |-> Lower(s[i])]

RECURSIVE LStripSet(_, _)
LStripSet(s, drop) ==
    IF s # <<>> /\ Head(s) \in drop THEN LStripSet(Tail(s), drop) ELSE s

RECURSIVE RStripSet(_, _)
RStripSet(s, drop) ==
    IF s # <<>> /\ s[Len(s)] \in drop
    THEN RStripSet(SubSeq(s, 1, Len(s) - 1), drop)
    ELSE s

Spaces == {" ", "\t", "\n", "\r", "\f"}

\* str.strip()
Strip(s) == RStripSet(LStripSet(s, Spaces), Spaces)

\* sep.join(parts)
RECURSIVE Join(_, _)
Join(parts, sep) ==
    IF parts = <<>> THEN <<>>
    ELSE IF Len(parts) = 1 THEN parts[1]
    ELSE parts[1] \o sep \o Join(Tail(parts), sep)

\* str.splitlines(): the lines of s without their line breaks; "\r\n" is one
\* break, and a final break opens no further line
RECURSIVE SplitFrom(_, _, _)
SplitFrom(s, i, cur) ==
    IF i > Len(s) THEN (IF cur = <<>> THEN <<>> ELSE <<cur>>)
    ELSE IF s[i] = "\r" /\ i < Len(s) /\ s[i + 1] = "\n"
         THEN <<cur>> \o SplitFrom(s, i + 2, <<>>)
    ELSE IF s[i] \in {"\n", "\r", "\f"}
         THEN <<cur>> \o SplitFrom(s, i + 1, <<>>)
    ELSE SplitFrom(s, i + 1, Append(cur, s[i]))

SplitLines(s) == SplitFrom(s, 1, <<>>)

(***************************************************************************)
(* core/extractor.py: SECTION_PATTERNS and parse_problem_text.             *)
(***************************************************************************)
SectionNames == {"statement", "input", "output", "constraints", "examples"}

\* The patterns in dict order; each lists its alternatives in the order the
\* regex engine tries them (an optional final "s" is tried present first).
SECTION_PATTERNS == <<
    [name |-> "statement",
     alts |-> <<Chars("statement"), Chars("problem"),
                Chars("instructions"), Chars("instruction")>>],
    [name |-> "input", alts |-> <<Chars("input")>>],
    [name |-> "output", alts |-> <<Chars("output")>>],
    [name |-> "constraints",
     alts |-> <<Chars("constraints"), Chars("constraint"),
                Chars("limits"), Chars("limit")>>],
    [name |-> "examples", alts |-> <<Chars("examples"), Chars("example")>>] >>

\* ^alt\b with re.IGNORECASE: the line starts with alt in any case, and the
\* match ends at a word boundary (the end of the line or a non-word character)
AltMatches(alt, line) ==
    /\ Len(line) >= Len(alt)
    /\ \A i \in 1..Len(alt) : Lower(line[i]) = alt[i]
    /\ \/ Len(line) = Len(alt)
       \/ ~IsWord(line[Len(alt) + 1])

\* len(pattern.match(line).group(0)), or 0 when the pattern does not match
MatchLen(pattern, line) ==
    LET hits == {j \in DOMAIN pattern.alts : AltMatches(pattern.alts[j], line)}
    IN IF hits = {} THEN 0
       ELSE Len(pattern.alts[CHOOSE j \in hits : \A h \in hits : j <= h])

\* the index of the first pattern that matches, or 0
FirstPattern(line) ==
    LET hits == {p \in DOMAIN SECTION_PATTERNS :
                    MatchLen(SECTION_PATTERNS[p], line) > 0}
    IN IF hits = {} THEN 0 ELSE CHOOSE p \in hits : \A h \in hits : p <= h

\* a plausible slip: the section switch is lost when the header has no remainder
ParseLine_DropsBareHeader(st, raw_line) ==
    LET line == Strip(raw_line)
        p == FirstPattern(line)
        rest == IF p = 0 THEN line
                ELSE Strip(SubSeq(line, MatchLen(SECTION_PATTERNS[p], line) + 1,
                                  Len(line)))
        cur == IF p = 0 \/ rest = <<>> THEN st.current_section
               ELSE SECTION_PATTERNS[p].name
    IN IF line = <<>> THEN st
       ELSE [current_section |-> cur,
             sections |-> [st.sections EXCEPT ![cur] = Append(@, rest)]]

\* one iteration of the loop over text.splitlines()
ParseLine(st, raw_line) ==
    LET line == Strip(raw_line)
        p == FirstPattern(line)
        cur == IF p = 0 THEN st.current_section ELSE SECTION_PATTERNS[p].name
        rest == IF p = 0 THEN line
                ELSE Strip(SubSeq(line, MatchLen(SECTION_PATTERNS[p], line) + 1,
                                  Len(line)))
    IN IF line = <<>> THEN st
       ELSE [current_section |-> cur,
             sections |-> [st.sections EXCEPT ![cur] = Append(@, rest)]]

RECURSIVE ParseLines(_, _)
ParseLines(st, lines) ==
    IF lines = <<>> THEN st
    ELSE ParseLines(ParseLine(st, Head(lines)), Tail(lines))

ParseStart ==
    [current_section |-> "statement",
     sections |-> [k \in SectionNames |-> <<>>]]

\* the dict built by the loop, as it stands at the return statement
ParsedSections(t) == ParseLines(ParseStart, SplitLines(t)).sections

\* the return value: {k: "\n".join(v).strip() for k, v in sections.items() if v}
Normalize(secs) ==
    [k \in {n \in SectionNames : secs[n] # <<>>} |->
        Strip(Join(secs[k], <<"\n">>))]

parse_problem_text(t) == Normalize(ParsedSections(t))

\* Statement texts: up to MaxLines lines of the pool joined by "\n", and the
\* example of the specification's section 8.
LinePool ==
    { Chars("Input"), Chars("input: n"), Chars("Inputs x"), Chars("  Output "),
      <<>>, Chars(" "), Chars("Do it."), Chars("Examples"), Chars("limit 5"),
      Chars("Problem") }

ExampleText ==
    Chars("Problem\nDo the thing.\nInput\nAn integer n.\nOutput\nn squared.")

Texts ==
    {ExampleText} \cup
    UNION { {Join(ls, <<"\n">>) : ls \in [1..n -> LinePool]} : n \in 0..MaxLines }

ParseProblemText ==
    /\ ppc = "start"
    /\ sections' = ParsedSections(text)
    /\ result' = parse_problem_text(text)
    /\ ppc' = "done"
    /\ UNCHANGED <<text, slugVars, buildVars, appVars>>

(***************************************************************************)
(* core/utils.py: slugify.                                                 *)
(***************************************************************************)
\* value.encode("ascii", "ignore").decode("ascii")
AsciiIgnore(s) == SelectSeq(s, IsAscii)

IsSpaceOrHyphen(c) == IsSpace(c) \/ c = "-"

\* re.sub(r"[\s\-]+", "_", value): each maximal run becomes one underscore
RECURSIVE CollapseRuns(_)
CollapseRuns(s) ==
    IF s = <<>> THEN <<>>
    ELSE IF IsSpaceOrHyphen(Head(s))
         THEN <<"_">> \o CollapseRuns(LStripSet(s, {c \in Range(s) : IsSpaceOrHyphen(c)}))
    ELSE <<Head(s)>> \o CollapseRuns(Tail(s))

\* re.sub(r"[^\w_]", "", value)
RemoveNonWord(s) == SelectSeq(s, IsWord)

\* a plausible slip: the final strip("_") is forgotten
slugify_NoStrip(v, unicode) ==
    LowerStr(RemoveNonWord(CollapseRuns(IF unicode THEN v ELSE AsciiIgnore(v))))

slugify(v, unicode) ==
    LET a == IF unicode THEN v ELSE AsciiIgnore(v)
        b == CollapseRuns(a)
        c == RemoveNonWord(b)
    IN RStripSet(LStripSet(LowerStr(c), {"_"}), {"_"})

SlugAlphabet == {"M", "y", "1", "_", " ", "-", "#", "U+00C9"}

SlugExample == Chars("My Exercise #1!")

SlugInputs ==
    {SlugExample} \cup UNION { [1..n -> SlugAlphabet] : n \in 0..MaxSlugLen }

Slugify ==
    /\ spc = "start"
    /\ slug' = slugify(value, allow_unicode)
    /\ spc' = "done"
    /\ UNCHANGED <<value, allow_unicode, parseVars, buildVars, appVars>>

(***************************************************************************)
(* Python values that JSON can carry, and json.dumps / the Python reading  *)
(* of its output.  A text is kept as its sequence of tokens.               *)
(***************************************************************************)
PyNone == [t |-> "None"]
PyBool(b) == [t |-> "bool", b |-> b]
PyInt(n) == [t |-> "int", n |-> n]
PyStr(s) == [t |-> "str", s |-> s]
PyList(items) == [t |-> "list", items |-> items]

Name(id) == [k |-> "NAME", id |-> id]
Number(n) == [k |-> "NUMBER", n |-> n]
String(s) == [k |-> "STRING", s |-> s]
Op(c) == [k |-> "OP", c |-> c]

\* json.dumps(v, indent=2), without its white space; a tuple is written as a list
RECURSIVE Dumps(_)
RECURSIVE DumpItems(_)
Dumps(v) ==
    CASE v.t = "None" -> <<Name("null")>>
      [] v.t = "bool" -> <<Name(IF v.b THEN "true" ELSE "false")>>
      [] v.t = "int" -> <<Number(v.n)>>
      [] v.t = "str" -> <<String(v.s)>>
      [] v.t = "list" -> <<Op("[")>> \o DumpItems(v.items) \o <<Op("]")>>
DumpItems(items) ==
    IF items = <<>> THEN <<>>
    ELSE IF Len(items) = 1 THEN Dumps(items[1])
    ELSE Dumps(items[1]) \o <<Op(",")>> \o DumpItems(Tail(items))

NameError(id) == [t |-> "NameError", name |-> id]

\* Python's evaluation of the expression that starts at token i: the value
\* (or the NameError of the first undefined name) and the next token's index.
\* None, True and False are the names a module can read without defining them.
RECURSIVE PyEvalAt(_, _)
RECURSIVE PyEvalItems(_, _, _, _)
PyEvalAt(toks, i) ==
    LET tk == toks[i]
    IN CASE tk.k = "NUMBER" -> [val |-> PyInt(tk.n), next |-> i + 1]
         [] tk.k = "STRING" -> [val |-> PyStr(tk.s), next |-> i + 1]
         [] tk.k = "NAME" ->
              [val |-> IF tk.id = "None" THEN PyNone
                       ELSE IF tk.id = "True" THEN PyBool(TRUE)
                       ELSE IF tk.id = "False" THEN PyBool(FALSE)
                       ELSE NameError(tk.id),
               next |-> i + 1]
         [] tk.k = "OP" ->
              IF toks[i + 1] = Op("]")
              THEN [val |-> PyList(<<>>), next |-> i + 2]
              ELSE PyEvalItems(toks, i + 1, <<>>, PyNone)
PyEvalItems(toks, i, acc, err) ==
    LET r == PyEvalAt(toks, i)
        err2 == IF err = PyNone /\ r.val.t = "NameError" THEN r.val ELSE err
        acc2 == Append(acc, r.val)
    IN IF toks[r.next] = Op(",")
       THEN PyEvalItems(toks, r.next + 1, acc2, err2)
       ELSE [val |-> IF err2 = PyNone THEN PyList(acc2) ELSE err2,
             next |-> r.next + 1]

PyEval(toks) == PyEvalAt(toks, 1).val

(***************************************************************************)
(* core/test_builder.py: build_pytest_file, and what pytest does with the  *)
(* file it writes.                                                         *)
(***************************************************************************)
\* case.get(key)
Get(case, key) == IF key \in DOMAIN case THEN case[key] ELSE PyNone

\* param_lines: the (input, expected) tuple of each case, in order
ParamLines(tcs) ==
    [i \in 1..Len(tcs) |->
        PyList(<<Get(tcs[i], "input"), Get(tcs[i], "expected")>>)]

\* the text build_pytest_file writes at output_path
BuildPytestFile(tcs, module_name, func_name) ==
    [import |-> "pytest",
     from_module |-> module_name,
     from_name |-> func_name,
     TEST_CASES |-> Dumps(PyList(ParamLines(tcs))),
     parametrize |-> <<"inp", "expected">>,
     test_name |-> Chars("test_") \o func_name,
     branches |-> <<"list: f(*inp)", "None: f()", "else: f(inp)">>]

\* the body of the generated test: how one row's inp is passed to the function
CallFor(row_inp) ==
    IF row_inp.t = "list" THEN [kind |-> "positional", args |-> row_inp.items]
    ELSE IF row_inp = PyNone THEN [kind |-> "no_args", args |-> <<>>]
    ELSE [kind |-> "single", args |-> <<row_inp>>]

\* importing the written file: its TEST_CASES assignment is evaluated
ImportTestFile(file) ==
    LET v == PyEval(file.TEST_CASES)
    IN IF v.t = "NameError" THEN [ok |-> FALSE, error |-> v]
       ELSE [ok |-> TRUE, TEST_CASES |-> v.items]

ValuePool ==
    { PyNone, PyBool(TRUE), PyInt(2), PyStr("a"), PyList(<<>>),
      PyList(<<PyInt(2), PyInt(3)>>), PyList(<<PyNone>>) }

CasePool ==
    [input : ValuePool, expected : ValuePool] \cup [expected : ValuePool]

CaseLists == UNION { [1..n -> CasePool] : n \in 0..MaxCases }

SolveName == Chars("solve")

\* build_pytest_file(test_cases, "solution_1", output_path)
WriteTestFile ==
    /\ bpc = "start"
    /\ written' = BuildPytestFile(cases, Chars("solution_1"), SolveName)
    /\ bpc' = "written"
    /\ UNCHANGED <<cases, loaded, calls>>
    /\ UNCHANGED <<parseVars, slugVars, appVars>>

\* the test runner imports the file as it was written
CollectTestFile ==
    /\ bpc = "written"
    /\ loaded' = ImportTestFile(written)
    /\ bpc' = "loaded"
    /\ UNCHANGED <<cases, written, calls>>
    /\ UNCHANGED <<parseVars, slugVars, appVars>>

\* the parametrized test runs once per row of the table
RunTestFile ==
    /\ bpc = "loaded"
    /\ loaded.ok
    /\ calls' = [i \in 1..Len(loaded.TEST_CASES) |->
                    CallFor(loaded.TEST_CASES[i].items[1])]
    /\ bpc' = "ran"
    /\ UNCHANGED <<cases, written, loaded>>
    /\ UNCHANGED <<parseVars, slugVars, appVars>>

(***************************************************************************)
(* Paths (pathlib.Path): a sequence of components, each a string.          *)
(***************************************************************************)
\* Path(p).name
PathName(path) == path[Len(path)]

\* the index of the last "." of a name, or 0
LastDot(name) ==
    LET dots == {i \in DOMAIN name : name[i] = "."}
    IN IF dots = {} THEN 0 ELSE CHOOSE i \in dots : \A j \in dots : j <= i

\* Path(p).stem: the name without its last suffix; a leading or a final dot
\* starts no suffix
PathStem(path) ==
    LET name == PathName(path)
        i == LastDot(name)
    IN IF i > 1 /\ i < Len(name) THEN SubSeq(name, 1, i - 1) ELSE name

\* str(n) for n >= 0
RECURSIVE IntStr(_)
IntStr(n) ==
    IF n < 10 THEN <<Digits[n + 1]>>
    ELSE IntStr(n \div 10) \o <<Digits[(n % 10) + 1]>>

(***************************************************************************)
(* core/utils.py: make_zipfile.  The archive is kept as the ordered list   *)
(* of its entries; an entry takes the bytes its source file holds when it  *)
(* is written.  In a file's record, writer names the session that wrote    *)
(* those bytes.                                                            *)
(***************************************************************************)
ZipEntryOf(fs, arcname, filename) ==
    [arcname |-> arcname, data |-> fs[filename].data, writer |-> fs[filename].writer]

(***************************************************************************)
(* core/generator.py and core/validator.py are not in the source tree:     *)
(* generate_solutions, generate_test_cases and validate_solutions follow   *)
(* sections 4.3 and 4.4 of the specification.                              *)
(***************************************************************************)
SolutionText(i) == [code |-> "def solve", attempt |-> i]

\* n solutions in request order; a failed generation degrades to an empty list
generate_solutions(n, succeeded) ==
    IF succeeded THEN [i \in 1..n |-> SolutionText(i)] ELSE <<>>

LlmCase(i) == [input |-> PyList(<<PyInt(i)>>), expected |-> PyInt(i)]

\* the first max_tests of the cases of the completion, in the model's order
generate_test_cases(n_returned, max_tests) ==
    [i \in 1..(IF n_returned < max_tests THEN n_returned ELSE max_tests) |->
        LlmCase(i)]

\* one result per solution, each over every case
validate_solutions(sols, tcs) ==
    [i \in 1..Len(sols) |->
        [key |-> Chars("solution_") \o IntStr(i), cases |-> Len(tcs)]]

(***************************************************************************)
(* app.py: the widgets and the Generate handler.                           *)
(***************************************************************************)
Sessions == {"A", "B"}

NumSolutionsMin == 1
NumSolutionsMax == 3
MaxTestsMin == 1
MaxTestsMax == 20
MaxTestsDefault == 10

PdfNames == {Chars("My Exam.pdf"), Chars("hw-1.pdf")}

\* tempfile.gettempdir()
TempDir == <<Chars("tmp")>>

\* a run-scoped scratch directory instead of the shared one
WorkDir_PerRun(s) == TempDir \o <<Chars(s)>>

\* work_dir = Path(tempfile.gettempdir())
WorkDir(s) == TempDir

\* a plausible slip: the file is numbered by the loop index itself
SolutionName_ZeroBased(idx) == Chars("solution_") \o IntStr(idx) \o Chars(".py")

\* sol_name = f"solution_{idx+1}.py"
SolutionName(idx) == Chars("solution_") \o IntStr(idx + 1) \o Chars(".py")

\* test_filename = f"test_{sol_name}.py" with sol_name = Path(sol_path).stem
TestFileName(sol_path) == Chars("test_") \o PathStem(sol_path) \o Chars(".py")

\* zip_path = work_dir / (slugify(pdf_file.name) + "_suite.zip")
ZipPath(s) == WorkDir(s) \o <<slugify(inp[s].pdf_name, FALSE) \o Chars("_suite.zip")>>

\* files_to_zip: (name, path) of each solution, then ("tests/" + name, path)
\* of each test file
FilesToZip(s) ==
    [i \in 1..Len(solution_paths[s]) |->
        [arcname |-> PathName(solution_paths[s][i]),
         filename |-> solution_paths[s][i]]]
    \o
    [i \in 1..Len(test_files[s]) |->
        [arcname |-> Chars("tests/") \o PathName(test_files[s][i]),
         filename |-> test_files[s][i]]]

\* mock_mode: no API key
MockMode(s) == inp[s].api_key = ""

\* a plausible slip: the cap handed on is the widget's upper limit
MaxTestsArg_WidgetLimit(s) == MaxTestsMax

\* max_tests=int(max_tests)
MaxTestsArg(s) == inp[s].max_tests

\* "if test_cases:" before validation
ValidationGuard(s) == test_cases[s] # <<>>

\* a plausible slip: packaging is not guarded
PackagingGuard_Always(s) == TRUE

\* "if test_cases:" before packaging
PackagingGuard(s) == test_cases[s] # <<>>

Render(s, items) == [ui EXCEPT ![s] = @ \o items]

WriteFile(fs, path, data, s) == (path :> [data |-> data, writer |-> s]) @@ fs

\* the button is pressed: files are checked, the PDF is saved and parsed, the
\* statement and the template are rendered
Generate(s) ==
    /\ pc[s] = "idle"
    /\ IF ~inp[s].pdf \/ ~inp[s].template
       THEN /\ ui' = Render(s, <<[kind |-> "error", what |-> "missing file"]>>)
            /\ pc' = [pc EXCEPT ![s] = "done"]
            /\ UNCHANGED disk
       ELSE /\ disk' = WriteFile(disk, TempDir \o <<inp[s].pdf_name>>, "pdf", s)
            /\ IF inp[s].pdf_ok
               THEN /\ ui' = Render(s,
                        <<[kind |-> "subheader", what |-> "Extracted Statement"],
                          [kind |-> "statement",
                           what |-> {k \in DOMAIN parse_problem_text(ExampleText) :
                                        parse_problem_text(ExampleText)[k] # <<>>}],
                          [kind |-> "subheader", what |-> "Code Template"]>>)
                    /\ pc' = [pc EXCEPT ![s] = "solutions"]
               ELSE /\ ui' = Render(s, <<[kind |-> "exception", what |-> "fitz"]>>)
                    /\ pc' = [pc EXCEPT ![s] = "crashed"]
    /\ UNCHANGED <<inp, solutions, test_cases, validated, solution_paths,
                   test_files, zipped, offered, llm>>
    /\ UNCHANGED <<parseVars, slugVars, buildVars>>

\* generate_solutions is called and each solution rendered
GenerateSolutions(s) ==
    /\ pc[s] = "solutions"
    /\ LET sols == generate_solutions(inp[s].num_solutions,
                                       MockMode(s) \/ llm[s].answers)
       IN /\ solutions' = [solutions EXCEPT ![s] = sols]
          /\ ui' = Render(s,
                <<[kind |-> "subheader", what |-> "Generated Solutions"]>>
                \o [i \in 1..Len(sols) |-> [kind |-> "solution", what |-> i]])
    /\ pc' = [pc EXCEPT ![s] = "test_cases"]
    /\ UNCHANGED <<inp, test_cases, validated, solution_paths, test_files,
                   zipped, offered, llm, disk>>
    /\ UNCHANGED <<parseVars, slugVars, buildVars>>

\* generate_test_cases(problem_data, solutions[0], ...) and the rendering of
\* its cases, or of the warning
GenerateTestCases(s) ==
    /\ pc[s] = "test_cases"
    /\ IF solutions[s] = <<>>
       THEN \* solutions[0] raises IndexError
            /\ ui' = Render(s, <<[kind |-> "exception", what |-> "IndexError"]>>)
            /\ pc' = [pc EXCEPT ![s] = "crashed"]
            /\ UNCHANGED test_cases
       ELSE LET tcs == generate_test_cases(llm[s].n_cases, MaxTestsArg(s))
            IN /\ test_cases' = [test_cases EXCEPT ![s] = tcs]
               /\ ui' = Render(s,
                     <<[kind |-> "subheader", what |-> "Proposed Test Cases"]>>
                     \o (IF tcs # <<>>
                         THEN [i \in 1..Len(tcs) |-> [kind |-> "json", what |-> i]]
                         ELSE <<[kind |-> "warning", what |-> "no test cases"]>>))
               /\ pc' = [pc EXCEPT ![s] = "validate"]
    /\ UNCHANGED <<inp, solutions, validated, solution_paths, test_files,
                   zipped, offered, llm, disk>>
    /\ UNCHANGED <<parseVars, slugVars, buildVars>>

\* validation and the rendering of its results, when there are test cases
ValidateSolutions(s) ==
    /\ pc[s] = "validate"
    /\ IF ValidationGuard(s)
       THEN /\ validated' = [validated EXCEPT ![s] = [ran |-> TRUE, cases |-> test_cases[s]]]
            /\ ui' = Render(s,
                  <<[kind |-> "subheader", what |-> "Validation Results"]>>
                  \o [i \in 1..Len(solutions[s]) |->
                        [kind |-> "result",
                         what |-> validate_solutions(solutions[s], test_cases[s])[i]]])
       ELSE UNCHANGED <<validated, ui>>
    /\ pc' = [pc EXCEPT ![s] = "package"]
    /\ UNCHANGED <<inp, solutions, test_cases, solution_paths, test_files,
                   zipped, offered, llm, disk>>
    /\ UNCHANGED <<parseVars, slugVars, buildVars>>

\* the second "if test_cases:": packaging starts, or the run ends
BeginPackaging(s) ==
    /\ pc[s] = "package"
    /\ pc' = [pc EXCEPT ![s] = IF PackagingGuard(s) THEN "write_solutions" ELSE "done"]
    /\ UNCHANGED <<inp, solutions, test_cases, ui, validated, solution_paths,
                   test_files, zipped, offered, llm, disk>>
    /\ UNCHANGED <<parseVars, slugVars, buildVars>>

\* one iteration of the loop that writes solution_<i>.py, or its end
WriteSolution(s) ==
    /\ pc[s] = "write_solutions"
    /\ LET idx == Len(solution_paths[s])
           sol_path == WorkDir(s) \o <<SolutionName(idx)>>
       IN IF idx < Len(solutions[s])
          THEN /\ disk' = WriteFile(disk, sol_path, solutions[s][idx + 1], s)
               /\ solution_paths' = [solution_paths EXCEPT ![s] = Append(@, sol_path)]
               /\ UNCHANGED pc
          ELSE /\ pc' = [pc EXCEPT ![s] = "write_tests"]
               /\ UNCHANGED <<disk, solution_paths>>
    /\ UNCHANGED <<inp, solutions, test_cases, ui, validated, test_files,
                   zipped, offered, llm>>
    /\ UNCHANGED <<parseVars, slugVars, buildVars>>

\* create_test_suite_for_solutions: one iteration of its loop, or its return,
\* after which make_zipfile opens the archive
WriteTestFor(s) ==
    /\ pc[s] = "write_tests"
    /\ LET j == Len(test_files[s])
       IN IF j < Len(solution_paths[s])
          THEN LET sol_path == solution_paths[s][j + 1]
                   test_path == WorkDir(s) \o <<Chars("tests"), TestFileName(sol_path)>>
               IN /\ disk' = WriteFile(disk, test_path,
                               BuildPytestFile(test_cases[s], PathStem(sol_path), SolveName),
                               s)
                  /\ test_files' = [test_files EXCEPT ![s] = Append(@, test_path)]
                  /\ UNCHANGED pc
          ELSE /\ pc' = [pc EXCEPT ![s] = "zip"]
               /\ UNCHANGED <<disk, test_files>>
    /\ UNCHANGED <<inp, solutions, test_cases, ui, validated, solution_paths,
                   zipped, offered, llm>>
    /\ UNCHANGED <<parseVars, slugVars, buildVars>>

\* make_zipfile: one zf.write(filename, arcname), or the close of the archive
ZipNext(s) ==
    /\ pc[s] = "zip"
    /\ LET k == Len(zipped[s])
           files == FilesToZip(s)
       IN IF k < Len(files)
          THEN /\ zipped' = [zipped EXCEPT ![s] =
                      Append(@, ZipEntryOf(disk, files[k + 1].arcname, files[k + 1].filename))]
               /\ UNCHANGED <<pc, disk>>
          ELSE /\ disk' = WriteFile(disk, ZipPath(s), zipped[s], s)
               /\ pc' = [pc EXCEPT ![s] = "download"]
               /\ UNCHANGED zipped
    /\ UNCHANGED <<inp, solutions, test_cases, ui, validated, solution_paths,
                   test_files, offered, llm>>
    /\ UNCHANGED <<parseVars, slugVars, buildVars>>

\* the archive is read back from zip_path and offered for download
OfferDownload(s) ==
    /\ pc[s] = "download"
    /\ offered' = [offered EXCEPT ![s] = disk[ZipPath(s)]]
    /\ ui' = Render(s, <<[kind |-> "subheader", what |-> "Download Test Suite"],
                         [kind |-> "download_button", what |-> "application/zip"]>>)
    /\ pc' = [pc EXCEPT ![s] = "done"]
    /\ UNCHANGED <<inp, solutions, test_cases, validated, solution_paths,
                   test_files, zipped, llm, disk>>
    /\ UNCHANGED <<parseVars, slugVars, buildVars>>

(***************************************************************************)
(* Initial states and specifications.                                      *)
(***************************************************************************)
\* the values of "Maximum test cases" the model tries: its limits, its
\* default, and values below the number of cases the model may return
MaxTestsValues == {MaxTestsMin, 2, 3, MaxTestsDefault, MaxTestsMax}

\* the widgets' values: the two uploads, num_solutions, max_tests, api_key
Inputs ==
    [pdf : {TRUE}, pdf_name : PdfNames, pdf_ok : BOOLEAN, template : BOOLEAN,
     num_solutions : NumSolutionsMin..NumSolutionsMax,
     max_tests : MaxTestsValues, api_key : {"", "sk-key"}]
    \cup
    [pdf : {FALSE}, pdf_name : {<<>>}, pdf_ok : {FALSE}, template : BOOLEAN,
     num_solutions : NumSolutionsMin..NumSolutionsMax,
     max_tests : MaxTestsValues, api_key : {"", "sk-key"}]

NoInput ==
    [pdf |-> FALSE, pdf_name |-> <<>>, pdf_ok |-> FALSE, template |-> FALSE,
     num_solutions |-> NumSolutionsMin, max_tests |-> MaxTestsMin, api_key |-> ""]

\* the language model in one run: whether the endpoint answers the requests
\* for solutions (the simulated one always does), and the number of cases in
\* its answer to the request for test cases
LlmBehaviours(i) ==
    [answers : IF i.api_key = "" THEN {TRUE} ELSE BOOLEAN, n_cases : 0..MaxRaw]

NoLlm == [answers |-> TRUE, n_cases |-> 0]

EmptyDisk == <<>>

\* what an earlier run with three solutions leaves in the temp directory
LeftoverDisk ==
    [p \in {TempDir \o <<SolutionName(i)>> : i \in 0..2}
           \cup {TempDir \o <<Chars("tests"), TestFileName(<<SolutionName(i)>>)>> : i \in 0..2}
     |-> [data |-> "left by an earlier run", writer |-> "earlier run"]]

\* two sessions with both files uploaded, in demonstration mode, one test case
RaceInputs ==
    [pdf : {TRUE}, pdf_name : PdfNames, pdf_ok : {TRUE}, template : {TRUE},
     num_solutions : NumSolutionsMin..NumSolutionsMax,
     max_tests : {MaxTestsMin}, api_key : {""}]

\* parse_problem_text is about to be called on a statement text
InitParse ==
    /\ text \in Texts
    /\ sections = ParseStart.sections
    /\ result = <<>>
    /\ ppc = "start"
    /\ value = <<>> /\ allow_unicode = FALSE /\ slug = <<>> /\ spc = "idle"
    /\ cases = <<>> /\ written = PyNone /\ loaded = PyNone /\ calls = <<>>
    /\ bpc = "idle"
    /\ pc = [s \in Sessions |-> "off"]
    /\ inp = [s \in Sessions |-> NoInput]
    /\ llm = [s \in Sessions |-> NoLlm]
    /\ solutions = [s \in Sessions |-> <<>>]
    /\ test_cases = [s \in Sessions |-> <<>>]
    /\ ui = [s \in Sessions |-> <<>>]
    /\ validated = [s \in Sessions |-> [ran |-> FALSE, cases |-> <<>>]]
    /\ solution_paths = [s \in Sessions |-> <<>>]
    /\ test_files = [s \in Sessions |-> <<>>]
    /\ zipped = [s \in Sessions |-> <<>>]
    /\ offered = [s \in Sessions |-> PyNone]
    /\ disk = EmptyDisk

\* slugify is about to be called
InitSlug ==
    /\ text = <<>> /\ sections = ParseStart.sections /\ result = <<>>
    /\ ppc = "idle"
    /\ value \in SlugInputs
    /\ allow_unicode \in BOOLEAN
    /\ slug = <<>>
    /\ spc = "start"
    /\ cases = <<>> /\ written = PyNone /\ loaded = PyNone /\ calls = <<>>
    /\ bpc = "idle"
    /\ pc = [s \in Sessions |-> "off"]
    /\ inp = [s \in Sessions |-> NoInput]
    /\ llm = [s \in Sessions |-> NoLlm]
    /\ solutions = [s \in Sessions |-> <<>>]
    /\ test_cases = [s \in Sessions |-> <<>>]
    /\ ui = [s \in Sessions |-> <<>>]
    /\ validated = [s \in Sessions |-> [ran |-> FALSE, cases |-> <<>>]]
    /\ solution_paths = [s \in Sessions |-> <<>>]
    /\ test_files = [s \in Sessions |-> <<>>]
    /\ zipped = [s \in Sessions |-> <<>>]
    /\ offered = [s \in Sessions |-> PyNone]
    /\ disk = EmptyDisk

\* build_pytest_file is about to be called on a list of test cases
InitBuild ==
    /\ text = <<>> /\ sections = ParseStart.sections /\ result = <<>>
    /\ ppc = "idle"
    /\ value = <<>> /\ allow_unicode = FALSE /\ slug = <<>> /\ spc = "idle"
    /\ cases \in CaseLists
    /\ written = PyNone
    /\ loaded = PyNone
    /\ calls = <<>>
    /\ bpc = "start"
    /\ pc = [s \in Sessions |-> "off"]
    /\ inp = [s \in Sessions |-> NoInput]
    /\ llm = [s \in Sessions |-> NoLlm]
    /\ solutions = [s \in Sessions |-> <<>>]
    /\ test_cases = [s \in Sessions |-> <<>>]
    /\ ui = [s \in Sessions |-> <<>>]
    /\ validated = [s \in Sessions |-> [ran |-> FALSE, cases |-> <<>>]]
    /\ solution_paths = [s \in Sessions |-> <<>>]
    /\ test_files = [s \in Sessions |-> <<>>]
    /\ zipped = [s \in Sessions |-> <<>>]
    /\ offered = [s \in Sessions |-> PyNone]
    /\ disk = EmptyDisk

\* the page is shown to session A, its widgets hold any values they can hold,
\* and the temp directory is empty or holds an earlier run's files
InitApp ==
    /\ text = <<>> /\ sections = ParseStart.sections /\ result = <<>>
    /\ ppc = "idle"
    /\ value = <<>> /\ allow_unicode = FALSE /\ slug = <<>> /\ spc = "idle"
    /\ cases = <<>> /\ written = PyNone /\ loaded = PyNone /\ calls = <<>>
    /\ bpc = "idle"
    /\ pc = [s \in Sessions |-> IF s = "A" THEN "idle" ELSE "off"]
    /\ \E i \in Inputs : \E m \in LlmBehaviours(i) :
          /\ inp = [s \in Sessions |-> IF s = "A" THEN i ELSE NoInput]
          /\ llm = [s \in Sessions |-> IF s = "A" THEN m ELSE NoLlm]
    /\ solutions = [s \in Sessions |-> <<>>]
    /\ test_cases = [s \in Sessions |-> <<>>]
    /\ ui = [s \in Sessions |-> <<>>]
    /\ validated = [s \in Sessions |-> [ran |-> FALSE, cases |-> <<>>]]
    /\ solution_paths = [s \in Sessions |-> <<>>]
    /\ test_files = [s \in Sessions |-> <<>>]
    /\ zipped = [s \in Sessions |-> <<>>]
    /\ offered = [s \in Sessions |-> PyNone]
    /\ disk \in {EmptyDisk, LeftoverDisk}

\* the page is shown to two sessions that share the temp directory
InitRace ==
    /\ text = <<>> /\ sections = ParseStart.sections /\ result = <<>>
    /\ ppc = "idle"
    /\ value = <<>> /\ allow_unicode = FALSE /\ slug = <<>> /\ spc = "idle"
    /\ cases = <<>> /\ written = PyNone /\ loaded = PyNone /\ calls = <<>>
    /\ bpc = "idle"
    /\ pc = [s \in Sessions |-> "idle"]
    /\ inp \in {f \in [Sessions -> RaceInputs] : f["A"].pdf_name = Chars("My Exam.pdf")}
    /\ llm = [s \in Sessions |-> [answers |-> TRUE, n_cases |-> 1]]
    /\ solutions = [s \in Sessions |-> <<>>]
    /\ test_cases = [s \in Sessions |-> <<>>]
    /\ ui = [s \in Sessions |-> <<>>]
    /\ validated = [s \in Sessions |-> [ran |-> FALSE, cases |-> <<>>]]
    /\ solution_paths = [s \in Sessions |-> <<>>]
    /\ test_files = [s \in Sessions |-> <<>>]
    /\ zipped = [s \in Sessions |-> <<>>]
    /\ offered = [s \in Sessions |-> PyNone]
    /\ disk = EmptyDisk

ParseNext == ParseProblemText

SlugNext == Slugify

BuildNext == WriteTestFile \/ CollectTestFile \/ RunTestFile

AppNext ==
    \E s \in Sessions :
        \/ Generate(s)
        \/ GenerateSolutions(s)
        \/ GenerateTestCases(s)
        \/ ValidateSolutions(s)
        \/ BeginPackaging(s)
        \/ WriteSolution(s)
        \/ WriteTestFor(s)
        \/ ZipNext(s)
        \/ OfferDownload(s)

SpecParse == InitParse /\ [][ParseNext]_vars

SpecSlug == InitSlug /\ [][SlugNext]_vars

SpecBuild == InitBuild /\ [][BuildNext]_vars

SpecApp == InitApp /\ [][AppNext]_vars

SpecRace == InitRace /\ [][AppNext]_vars

(***************************************************************************)
(* Helpers of the properties.                                              *)
(***************************************************************************)
Min(a, b) == IF a < b THEN a ELSE b

\* a is b with some of its elements left out
RECURSIVE IsSubseq(_, _)
IsSubseq(a, b) ==
    IF a = <<>> THEN TRUE
    ELSE IF b = <<>> THEN FALSE
    ELSE IF Head(a) = Head(b) THEN IsSubseq(Tail(a), Tail(b))
    ELSE IsSubseq(a, Tail(b))

HasPrefix(str, prefix) ==
    Len(str) >= Len(prefix) /\ SubSeq(str, 1, Len(prefix)) = prefix

\* the trimmed lines of a text
TrimmedLines(t) == [i \in 1..Len(SplitLines(t)) |-> Strip(SplitLines(t)[i])]

IsHeaderLine(line) == FirstPattern(line) > 0

\* the section named by the last header line before line i, or statement
SectionAt(lines, i) ==
    LET before == {j \in 1..(i - 1) : IsHeaderLine(lines[j])}
    IN IF before = {} THEN "statement"
       ELSE SECTION_PATTERNS[FirstPattern(
                lines[CHOOSE j \in before : \A h \in before : h <= j])].name

\* the non-blank lines of the text that are no header lines and follow a
\* header of section k (or no header, for statement), trimmed, in order
RECURSIVE PlainLinesFrom(_, _, _)
PlainLinesFrom(lines, i, k) ==
    IF i > Len(lines) THEN <<>>
    ELSE (IF lines[i] # <<>> /\ ~IsHeaderLine(lines[i]) /\ SectionAt(lines, i) = k
          THEN <<lines[i]>> ELSE <<>>)
         \o PlainLinesFrom(lines, i + 1, k)

PlainLinesOf(t, k) == PlainLinesFrom(TrimmedLines(t), 1, k)

NonBlankCount(t) == Cardinality({i \in DOMAIN TrimmedLines(t) : TrimmedLines(t)[i] # <<>>})

RECURSIVE SumLen(_, _)
SumLen(f, keys) ==
    IF keys = {} THEN 0
    ELSE LET k == CHOOSE x \in keys : TRUE
         IN Len(f[k]) + SumLen(f, keys \ {k})

Rendered(s, kind, what) ==
    \E i \in DOMAIN ui[s] : ui[s][i].kind = kind /\ ui[s][i].what = what

RenderedKind(s, kind) == \E i \in DOMAIN ui[s] : ui[s][i].kind = kind

SolutionsGenerated(s) == Rendered(s, "subheader", "Generated Solutions")

TestCasesGenerated(s) == Rendered(s, "subheader", "Proposed Test Cases")

DownloadOffered(s) == offered[s] # PyNone \/ RenderedKind(s, "download_button")

ArcNames(s) == {zipped[s][i].arcname : i \in DOMAIN zipped[s]}

\* the archive of session s is complete
Packaged(s) == pc[s] = "download" \/ (pc[s] = "done" /\ offered[s] # PyNone)

\* the rows of the table a packaged test file defines
RowsOf(file) == Len(PyEval(file.TEST_CASES).items)

(***************************************************************************)
(* C1.  The mapping parse_problem_text returns has no key whose value is   *)
(* the empty string: a header line with nothing after the header adds      *)
(* nothing to its section, and a section that got no text is left out.     *)
(* The code appends the empty remainder (extractor.py line 85), so the     *)
(* text "Input" gives {"input": ""}.                                      *)
(***************************************************************************)
C1_NoEmptySectionValue ==
    ppc = "done" => \A k \in DOMAIN result : result[k] # <<>>

(***************************************************************************)
(* C2.  parse_problem_text uses only the five section keys, and every      *)
(* non-blank line that matches no header pattern is appended, trimmed and  *)
(* in input order, to the section of the last header line before it, or to *)
(* statement when there is none; each non-blank line is appended once; and *)
(* the example text of the specification gives exactly statement "Do the   *)
(* thing.", input "An integer n.", output "n squared.".                    *)
(***************************************************************************)
C2_PlainLinesFollowTheCursor ==
    ppc = "done" =>
        /\ DOMAIN result \subseteq SectionNames
        /\ SumLen(sections, SectionNames) = NonBlankCount(text)
        /\ \A k \in SectionNames :
              /\ IsSubseq(PlainLinesOf(text, k), sections[k])
              /\ PlainLinesOf(text, k) # <<>> =>
                    /\ k \in DOMAIN result
                    /\ IsSubseq(PlainLinesOf(text, k), SplitLines(result[k]))
        /\ text = ExampleText =>
              /\ DOMAIN result = {"statement", "input", "output"}
              /\ result["statement"] = Chars("Do the thing.")
              /\ result["input"] = Chars("An integer n.")
              /\ result["output"] = Chars("n squared.")

\* a text whose plain lines go to statement and, after a header, to input
C2_Witness ==
    /\ ppc = "done"
    /\ text # ExampleText
    /\ PlainLinesOf(text, "statement") # <<>>
    /\ PlainLinesOf(text, "input") # <<>>
    /\ result["input"] = Chars("Do it.")

(***************************************************************************)
(* C3.  No section string returned by parse_problem_text contains an empty *)
(* line, that is two consecutive newlines.  The code appends the empty     *)
(* remainder of a bare header line, so "Do it.\nProblem\nDo it." gives     *)
(* statement "Do it.\n\nDo it.".                                           *)
(***************************************************************************)
C3_NoEmptyLineInSection ==
    ppc = "done" =>
        \A k \in DOMAIN result :
            \A i \in 1..(Len(result[k]) - 1) :
                ~(result[k][i] = "\n" /\ result[k][i + 1] = "\n")

(***************************************************************************)
(* C4.  For test cases whose input and expected are JSON values, the file  *)
(* build_pytest_file writes is loaded by the test runner as it stands, its *)
(* TEST_CASES equals the ordered list of (input, expected) pairs, and each *)
(* row is called by the arity rule: a list is unpacked, None makes a call  *)
(* without arguments, anything else is the single argument.  The code      *)
(* writes the table with json.dumps, so None, True and False are written   *)
(* null, true and false, which are undefined names to Python.              *)
(***************************************************************************)
C4_WrittenFileLoadsAndMatches ==
    bpc \in {"loaded", "ran"} =>
        /\ loaded.ok
        /\ loaded.TEST_CASES = ParamLines(cases)
        /\ bpc = "ran" =>
              /\ Len(calls) = Len(cases)
              /\ \A i \in DOMAIN cases :
                    LET v == Get(cases[i], "input")
                    IN calls[i] =
                         IF v.t = "list" THEN [kind |-> "positional", args |-> v.items]
                         ELSE IF v.t = "None" THEN [kind |-> "no_args", args |-> <<>>]
                         ELSE [kind |-> "single", args |-> <<v>>]

(***************************************************************************)
(* C5.  In a run that reaches packaging with n generated solutions, n in   *)
(* 1..3, the archive's entry names are exactly solution_1.py up to         *)
(* solution_n.py and tests/test_solution_1.py up to                        *)
(* tests/test_solution_n.py, none twice, each written by this run, and the *)
(* archive offered is that archive.                                        *)
(***************************************************************************)
C5_ArchiveEntryNames ==
    \A s \in Sessions :
        Packaged(s) =>
            LET n == Len(solutions[s])
            IN /\ n \in NumSolutionsMin..NumSolutionsMax
               /\ Len(zipped[s]) = 2 * n
               /\ ArcNames(s) =
                     {Chars("solution_" \o ToString(i) \o ".py") : i \in 1..n}
                     \cup {Chars("tests/test_solution_" \o ToString(i) \o ".py") : i \in 1..n}
               /\ Cardinality(ArcNames(s)) = 2 * n
               /\ \A i \in DOMAIN zipped[s] : zipped[s][i].writer = s
               /\ offered[s] # PyNone => offered[s].data = zipped[s]

\* a run with two solutions is offered its archive while the temp directory
\* still holds the third solution of an earlier run
C5_Witness ==
    \E s \in Sessions :
        /\ pc[s] = "done"
        /\ offered[s] # PyNone
        /\ Len(solutions[s]) = 2
        /\ \E p \in DOMAIN disk : disk[p].writer = "earlier run"

(***************************************************************************)
(* C6.  When test-case generation gives an empty list, the run renders the *)
(* warning and neither validates nor packages: it writes no solution or    *)
(* test file, builds no archive and offers no download.  And a download is *)
(* offered only after the validation and the packaging of a non-empty list *)
(* of test cases.                                                          *)
(***************************************************************************)
C6_EmptyTestCasesSkipTheRest ==
    \A s \in Sessions :
        /\ (TestCasesGenerated(s) /\ test_cases[s] = <<>>) =>
              /\ Rendered(s, "warning", "no test cases")
              /\ ~validated[s].ran
              /\ ~RenderedKind(s, "result")
              /\ pc[s] \in {"validate", "package", "done"}
              /\ solution_paths[s] = <<>>
              /\ test_files[s] = <<>>
              /\ zipped[s] = <<>>
              /\ \A p \in DOMAIN disk :
                    disk[p].writer = s => p = TempDir \o <<inp[s].pdf_name>>
              /\ ~DownloadOffered(s)
        /\ DownloadOffered(s) =>
              /\ test_cases[s] # <<>>
              /\ validated[s].ran
              /\ validated[s].cases = test_cases[s]
              /\ Len(zipped[s]) = 2 * Len(solutions[s])
              /\ offered[s].data = zipped[s]

\* a finished run whose test-case generation gave nothing
C6_Witness ==
    \E s \in Sessions :
        /\ pc[s] = "done"
        /\ TestCasesGenerated(s)
        /\ test_cases[s] = <<>>
        /\ Rendered(s, "warning", "no test cases")

C8_SlugIsSafe ==
    (spc = "done" /\ ~allow_unicode) =>
        /\ \A i \in DOMAIN slug :
              slug[i] \in Range(LowerLetters) \cup Range(Digits) \cup {"_"}
        /\ slug # <<>> => (slug[1] # "_" /\ slug[Len(slug)] # "_")
        /\ value = <<>> => slug = <<>>
        /\ value = SlugExample => slug = Chars("my_exercise_1")

\* an argument with an accented capital, a space and an underscore at the end
C8_Witness ==
    /\ spc = "done"
    /\ ~allow_unicode
    /\ value = <<"U+00C9", " ", "M">>
    /\ slug = <<"m">>

(***************************************************************************)
(* C9.  When solution generation returns an empty list, the run performs   *)
(* no test-case generation, validation or packaging, raises no unhandled   *)
(* error, and ends with a visible explanation and no download.  The code   *)
(* evaluates solutions[0] (app.py line 101), which raises IndexError.      *)
(***************************************************************************)
C9_EmptySolutionsShortCircuit ==
    \A s \in Sessions :
        (SolutionsGenerated(s) /\ solutions[s] = <<>>) =>
            /\ pc[s] # "crashed"
            /\ ~RenderedKind(s, "exception")
            /\ ~TestCasesGenerated(s)
            /\ ~validated[s].ran
            /\ zipped[s] = <<>>
            /\ ~DownloadOffered(s)
            /\ pc[s] = "done" => (RenderedKind(s, "warning") \/ RenderedKind(s, "error"))

(***************************************************************************)
(* C10.  Two sessions that share the temp directory can race.  Both write  *)
(* their i-th solution and test file at the same fixed path, and an        *)
(* archive entry holds another session's bytes only when that session      *)
(* wrote the same path; the witness is the interleaving in which the       *)
(* archive a session built and is offered holds a file the other session   *)
(* wrote last.                                                             *)
(***************************************************************************)
C10_SharedFixedNames ==
    \A s \in Sessions :
        /\ \A t \in Sessions :
              /\ \A i \in DOMAIN solution_paths[s] \cap DOMAIN solution_paths[t] :
                    solution_paths[s][i] = solution_paths[t][i]
              /\ \A i \in DOMAIN test_files[s] \cap DOMAIN test_files[t] :
                    test_files[s][i] = test_files[t][i]
        /\ \A i \in DOMAIN zipped[s] :
              LET w == zipped[s][i].writer
                  path == FilesToZip(s)[i].filename
              IN /\ w \in Sessions
                 /\ w # s => path \in Range(solution_paths[w]) \cup Range(test_files[w])

\* session s is offered the archive it built, with an entry written by the other
C10_Witness ==
    \E s \in Sessions :
        /\ pc[s] = "done"
        /\ offered[s] # PyNone
        /\ offered[s].writer = s
        /\ offered[s].data = zipped[s]
        /\ \E i \in DOMAIN zipped[s] : zipped[s][i].writer # s

=============================================================================
